---- MODULE Spec2Model ----
(***************************************************************************)
(* Model of cenDb's persistent lookup table (src/src/db/lookup.rs): an     *)
(* in-memory HashMap<u64, EntryLocation> backed by a snapshot file map.db  *)
(* and a log file wal.db.  Files are byte sequences, each File handle has  *)
(* its own cursor, and every record is encoded and decoded byte by byte.   *)
(***************************************************************************)
EXTENDS Integers, Sequences, FiniteSets, TLC

VARIABLES
    mapFile,   \* content of <dir>/map.db (absent = empty)
    walFile,   \* content of <dir>/wal.db (absent = empty)
    isOpen,    \* a LookupTable value is alive
    map,       \* LookupTable.map
    wal,       \* LookupTable.wal
    mapPos,    \* cursor of LookupTable.map_file
    walPos,    \* cursor of LookupTable.wal_file
    last,      \* the most recent call: its name, arguments and result, and,
               \* when the call before it was a flush, how that flush ended
    faulted    \* a call has failed or was cut short by a crash

vars == <<mapFile, walFile, isOpen, map, wal, mapPos, walPos, last, faulted>>

----------------------------------------------------------------------------
(* Bounds of the model *)

\* Number of values of one byte.  A u8 has 256; the model scales it down so
\* that an eight-byte u64 stays inside TLC's 32-bit integers.
ByteBase == 4
\* Bytes of the partial record a torn log write leaves (0 < TornLen < 25).
TornLen == 10
\* add/remove are not called once the log cursor has passed this many records.
MaxRecords == 2

(* Program constants *)
WAL_BLOCK_SIZE == 25
MAP_BLOCK_SIZE == 24
U64_BYTES == 8

Keys == {1, 6}
A == [block |-> 0, pointer |-> 1]
B == [block |-> 2, pointer |-> 7]
Locs == {A, B}

Insert(key, location) == [type |-> "Insert", key |-> key, location |-> location]
Remove(key) == [type |-> "Remove", key |-> key]
Ops == {Insert(k, l) : k \in Keys, l \in Locs} \cup {Remove(k) : k \in Keys}

----------------------------------------------------------------------------
(* Byte codec *)

Pow(b, n) == IF n = 0 THEN 1 ELSE IF n = 1 THEN b ELSE IF n = 2 THEN b * b
             ELSE IF n = 3 THEN b * b * b ELSE IF n = 4 THEN b * b * b * b
             ELSE IF n = 5 THEN b * b * b * b * b ELSE IF n = 6 THEN b * b * b * b * b * b
             ELSE b * b * b * b * b * b * b

Zeros(n) == [i \in 1..n |-> 0]

\* to_le_bytes writing the most significant byte first
to_be_bytes(x) == [i \in 1..U64_BYTES |-> (x \div Pow(ByteBase, U64_BYTES - i)) % ByteBase]

\* u64::to_le_bytes: least significant byte first
to_le_bytes(x) == [i \in 1..U64_BYTES |-> (x \div Pow(ByteBase, i - 1)) % ByteBase]

RECURSIVE SumBytes(_, _)
SumBytes(b, i) == IF i > Len(b) THEN 0 ELSE b[i] * Pow(ByteBase, i - 1) + SumBytes(b, i + 1)

\* u64::from_le_bytes
from_le_bytes(b) == SumBytes(b, 1)

\* slice.chunks_exact(n): the complete chunks; the remainder is left out
chunks_exact(buffer, n) ==
    [i \in 1..(Len(buffer) \div n) |-> SubSeq(buffer, (i - 1) * n + 1, i * n)]

\* File::write_all at the handle's cursor: bytes between the end of the file
\* and a cursor beyond it read as zero
WriteAt(file, pos, buffer) ==
    LET padded == IF pos > Len(file) THEN file \o Zeros(pos - Len(file)) ELSE file
    IN  SubSeq(padded, 1, pos) \o buffer
            \o SubSeq(padded, pos + Len(buffer) + 1, Len(padded))

\* File::set_len
SetLen(file, n) ==
    IF n <= Len(file) THEN SubSeq(file, 1, n) ELSE file \o Zeros(n - Len(file))

----------------------------------------------------------------------------
(* HashMap<u64, EntryLocation> *)

EmptyMap == [k \in {} |-> 0]

\* an insert that keeps the entry a key already has
MapInsertKeepOld(m, key, location) ==
    [k \in DOMAIN m \cup {key} |-> IF k \in DOMAIN m THEN m[k] ELSE location]

MapInsert(m, key, location) ==
    [k \in DOMAIN m \cup {key} |-> IF k = key THEN location ELSE m[k]]

\* a remove that empties the map
MapRemoveClear(m, key) == EmptyMap

MapRemove(m, key) == [k \in DOMAIN m \ {key} |-> m[k]]

\* LookupTable::get: Some(location) is {location}, None is {}
Get(m, key) == IF key \in DOMAIN m THEN {m[key]} ELSE {}

\* The orders in which a HashMap may be iterated
IterOrders(m) ==
    LET n == Cardinality(DOMAIN m)
    IN  {s \in [1..n -> DOMAIN m] : \A i, j \in 1..n : i # j => s[i] # s[j]}

----------------------------------------------------------------------------
(* Record codecs *)

\* a map record with block and pointer in each other's place
EncodeMapRecordSwapped(key, location) ==
    to_le_bytes(key) \o to_le_bytes(location.pointer) \o to_le_bytes(location.block)

EncodeMapRecord(key, location) ==
    to_le_bytes(key) \o to_le_bytes(location.block) \o to_le_bytes(location.pointer)

RECURSIVE InsertChunks(_, _, _)
InsertChunks(hashmap, chunks, i) ==
    IF i > Len(chunks) THEN hashmap
    ELSE LET chunk == chunks[i]
             key == from_le_bytes(SubSeq(chunk, 1, 8))
             block == from_le_bytes(SubSeq(chunk, 9, 16))
             pointer == from_le_bytes(SubSeq(chunk, 17, 24))
         IN  InsertChunks(MapInsert(hashmap, key, [block |-> block, pointer |-> pointer]),
                          chunks, i + 1)

get_map_from_file(file) == InsertChunks(EmptyMap, chunks_exact(file, MAP_BLOCK_SIZE), 1)

EncodeWalOp(operation) ==
    IF operation.type = "Insert"
    THEN <<0>> \o to_le_bytes(operation.key) \o to_le_bytes(operation.location.block)
              \o to_le_bytes(operation.location.pointer)
    ELSE <<1>> \o to_le_bytes(operation.key) \o Zeros(16)

\* a decoder that takes every opcode other than 0 for a remove
DecodeWalChunkElseRemove(chunk) ==
    LET op_type == chunk[1]
        key == from_le_bytes(SubSeq(chunk, 2, 9))
    IN  IF op_type = 0
        THEN <<Insert(key, [block |-> from_le_bytes(SubSeq(chunk, 10, 17)),
                            pointer |-> from_le_bytes(SubSeq(chunk, 18, 25))])>>
        ELSE <<Remove(key)>>

DecodeWalChunk(chunk) ==
    LET op_type == chunk[1]
        key == from_le_bytes(SubSeq(chunk, 2, 9))
    IN  IF op_type = 0
        THEN <<Insert(key, [block |-> from_le_bytes(SubSeq(chunk, 10, 17)),
                            pointer |-> from_le_bytes(SubSeq(chunk, 18, 25))])>>
        ELSE IF op_type = 1 THEN <<Remove(key)>>
        ELSE <<>>

RECURSIVE PushChunks(_, _)
PushChunks(chunks, i) ==
    IF i > Len(chunks) THEN <<>>
    ELSE DecodeWalChunk(chunks[i]) \o PushChunks(chunks, i + 1)

get_wal_from_file(file) == PushChunks(chunks_exact(file, WAL_BLOCK_SIZE), 1)

----------------------------------------------------------------------------
(* The directory the program starts with *)

\* a complete record whose opcode is neither insert nor remove
BadRecord == <<2>> \o to_le_bytes(1) \o Zeros(16)
TornTail == SubSeq(EncodeWalOp(Insert(6, B)), 1, TornLen)

\* snapshot files left by earlier runs: none, two records, and two records of
\* one key followed by part of a third
InitSnapshots ==
    { <<>>,
      EncodeMapRecord(6, B) \o EncodeMapRecord(1, A),
      EncodeMapRecord(1, A) \o EncodeMapRecord(1, B)
          \o SubSeq(EncodeMapRecord(6, B), 1, TornLen) }

\* log files left by earlier runs: none, whole records, two records and one
\* record followed by a torn last write, and records around one with an
\* unknown opcode
InitLogs ==
    { <<>>,
      EncodeWalOp(Insert(1, A)) \o EncodeWalOp(Insert(6, B)),
      EncodeWalOp(Insert(1, B)) \o EncodeWalOp(Remove(1)) \o TornTail,
      EncodeWalOp(Remove(1)) \o TornTail,
      EncodeWalOp(Remove(6)) \o BadRecord \o EncodeWalOp(Insert(6, A)) }

NoCall == [call |-> "none", args |-> <<>>, result |-> "Ok", after |-> <<>>]

Init ==
    /\ mapFile \in InitSnapshots
    /\ walFile \in InitLogs
    /\ isOpen = FALSE
    /\ map = EmptyMap
    /\ wal = <<>>
    /\ mapPos = 0
    /\ walPos = 0
    /\ last = NoCall
    /\ faulted = FALSE

----------------------------------------------------------------------------
(* Operations *)

\* No table is left.  map keeps what the table last held, for the properties
\* that compare it with what the next open rebuilds; no action reads it.
Gone(m) ==
    /\ isOpen' = FALSE
    /\ map' = m
    /\ wal' = <<>>
    /\ mapPos' = 0
    /\ walPos' = 0

Called(call, args, result) ==
    /\ last' = [call |-> call, args |-> args, result |-> result,
                after |-> IF last.call = "flush" THEN <<last.result>> \o last.args
                          ELSE <<>>]
    /\ faulted' = (faulted \/ result # "Ok")

\* an open that never deletes the file it finds
open_file_keep(file, reset) == file

\* an open with OpenOptions::truncate(true)
open_file_truncate(file, reset) == <<>>

\* the file new_reset opens: cleanup deletes it first when reset is set, and
\* OpenOptions read/write/create opens what is there, or creates it empty
open_file(file, reset) == IF reset THEN <<>> ELSE file

\* LookupTable::new(folder) = new_reset(folder, false); new_reset(folder, true)
\* deletes both files first.  The table returned replaces the one held.
Open(reset) ==
    /\ reset => ~isOpen
    /\ LET mf == open_file(mapFile, reset)
           wf == open_file(walFile, reset)
       IN  /\ mapFile' = mf
           /\ walFile' = wf
           /\ map' = get_map_from_file(mf)
           /\ wal' = get_wal_from_file(wf)
           /\ mapPos' = Len(mf)
           /\ walPos' = Len(wf)
    /\ isOpen' = TRUE
    /\ Called("new_reset", <<reset>>, "Ok")

\* A fallible step of new_reset returned Err: no table is returned, the one
\* held stays.  point is the step that failed.
OpenPoints == {"cleanup_map", "cleanup_wal", "open", "read"}
OpenErr(reset, point) ==
    /\ reset => ~isOpen
    /\ point \in {"cleanup_map", "cleanup_wal"} => reset
    /\ mapFile' = IF reset /\ point # "cleanup_map" THEN <<>> ELSE mapFile
    /\ walFile' = IF reset /\ point \notin {"cleanup_map", "cleanup_wal"} THEN <<>> ELSE walFile
    /\ UNCHANGED <<isOpen, map, wal, mapPos, walPos>>
    /\ Called("new_reset", <<reset>>, "Err")

\* fs::create_dir_all(parent).expect(..) failed: the process panics
OpenPanic(reset) ==
    /\ reset => ~isOpen
    /\ Gone(map)
    /\ UNCHANGED <<mapFile, walFile>>
    /\ Called("new_reset", <<reset>>, "panic")

IoOutcomes == {"ok", "write_err", "sync_err"}

\* what add returns: the result of write_wal_operation_to_file
\* an add that drops the error of the log write
add_result_swallow(io) == "Ok"

add_result(io) == IF io = "ok" THEN "Ok" ELSE "Err"

\* a remove that reports a key the map does not hold as an error
remove_result_absent_err(m, key, io) ==
    IF io = "ok" /\ key \in DOMAIN m THEN "Ok" ELSE "Err"

\* what remove(key) returns on the map m: the same, whether m holds key or not
remove_result(m, key, io) == IF io = "ok" THEN "Ok" ELSE "Err"

\* write_wal_operation_to_file: write_all at the cursor, then sync_all
LogAppend(operation, io) ==
    IF io = "write_err"
    THEN UNCHANGED <<walFile, walPos>>
    ELSE /\ walFile' = WriteAt(walFile, walPos, EncodeWalOp(operation))
         /\ walPos' = walPos + WAL_BLOCK_SIZE

CanAppend ==
    /\ isOpen
    /\ walPos \div WAL_BLOCK_SIZE < MaxRecords
    /\ Len(wal) < MaxRecords

\* an add whose record goes to the snapshot file's handle
AddToSnapshot(key, location, io) ==
    /\ CanAppend
    /\ map' = MapInsert(map, key, location)
    /\ wal' = Append(wal, Insert(key, location))
    /\ mapFile' = WriteAt(mapFile, mapPos, EncodeWalOp(Insert(key, location)))
    /\ mapPos' = mapPos + WAL_BLOCK_SIZE
    /\ UNCHANGED <<walFile, walPos, isOpen>>
    /\ Called("add", <<key, location>>, add_result(io))

Add(key, location, io) ==
    /\ CanAppend
    /\ map' = MapInsert(map, key, location)
    /\ wal' = Append(wal, Insert(key, location))
    /\ LogAppend(Insert(key, location), io)
    /\ UNCHANGED <<mapFile, mapPos, isOpen>>
    /\ Called("add", <<key, location>>, add_result(io))

RemoveKey(key, io) ==
    /\ CanAppend
    /\ map' = MapRemove(map, key)
    /\ wal' = Append(wal, Remove(key))
    /\ LogAppend(Remove(key), io)
    /\ UNCHANGED <<mapFile, mapPos, isOpen>>
    /\ Called("remove", <<key>>, remove_result(map, key, io))

\* The steps of flush, in order; FlushUpTo(stage, ..) is the table and the
\* files when every step before `stage` has been done and `stage` has not.
FlushStages == <<"seek", "set_len", "write", "sync", "wal_set_len", "wal_sync", "done">>
StageIdx(stage) == CHOOSE i \in 1..Len(FlushStages) : FlushStages[i] = stage

\* a write_map_to_file that leaves the cursor where it is
SeekStartKeep(pos) == pos

\* file.seek(SeekFrom::Start(0))
SeekStart(pos) == 0

\* a loop whose writes all land at the same offset
RECURSIVE WriteRecordsNoAdvance(_, _, _, _)
WriteRecordsNoAdvance(f, m, order, i) ==
    IF i > Len(order) THEN f
    ELSE WriteRecordsNoAdvance([file |-> WriteAt(f.file, f.pos, EncodeMapRecord(order[i], m[order[i]])),
                                pos |-> f.pos],
                               m, order, i + 1)

\* the loop of write_map_to_file: one write_all per entry, from order[i] on;
\* f is the file's content and the handle's cursor
RECURSIVE WriteRecords(_, _, _, _)
WriteRecords(f, m, order, i) ==
    IF i > Len(order) THEN f
    ELSE WriteRecords([file |-> WriteAt(f.file, f.pos, EncodeMapRecord(order[i], m[order[i]])),
                       pos |-> f.pos + MAP_BLOCK_SIZE],
                      m, order, i + 1)

\* write_map_to_file, stopped before `stage`; stopped in stage "write", the
\* first i records have been written
write_map_to_file(stage, order, i) ==
    LET s == StageIdx(stage)
        written == IF s = 3 THEN SubSeq(order, 1, i) ELSE order
    IN  IF s = 1 THEN [file |-> mapFile, pos |-> mapPos]
        ELSE IF s = 2 THEN [file |-> mapFile, pos |-> SeekStart(mapPos)]
        ELSE WriteRecords([file |-> SetLen(mapFile, 0), pos |-> SeekStart(mapPos)],
                          map, written, 1)

\* a flush that clears the in-memory wal and leaves the log file as it is
FlushUpToKeepLog(stage, order, i) ==
    LET s == StageIdx(stage)
        w == write_map_to_file(stage, order, i)
    IN  [mapPos |-> w.pos,
         mapFile |-> w.file,
         wal |-> IF s >= 5 THEN <<>> ELSE wal,
         walFile |-> walFile]

\* flush, stopped before `stage`
FlushUpTo(stage, order, i) ==
    LET s == StageIdx(stage)
        w == write_map_to_file(stage, order, i)
    IN  [mapPos |-> w.pos,
         mapFile |-> w.file,
         wal |-> IF s >= 5 THEN <<>> ELSE wal,
         walFile |-> IF s >= 6 THEN SetLen(walFile, 0) ELSE walFile]

FlushEffect(stage, order, i) ==
    LET f == FlushUpTo(stage, order, i)
    IN  /\ mapFile' = f.mapFile
        /\ mapPos' = f.mapPos
        /\ wal' = f.wal
        /\ walFile' = f.walFile
        /\ UNCHANGED <<map, walPos>>

Flush(order) ==
    /\ isOpen
    /\ FlushEffect("done", order, 0)
    /\ UNCHANGED isOpen
    /\ Called("flush", <<>>, "Ok")

\* the process was killed inside flush, before the step `stage`
FlushCrash(stage, order, i) ==
    /\ isOpen
    /\ stage \notin {"seek", "done"}
    /\ mapFile' = FlushUpTo(stage, order, i).mapFile
    /\ walFile' = FlushUpTo(stage, order, i).walFile
    /\ Gone(map)
    /\ Called("flush", <<stage>>, "crash")

\* the process was killed inside add, TornLen bytes of the record written
AddCrash(key, location) ==
    /\ CanAppend
    /\ walFile' = WriteAt(walFile, walPos, SubSeq(EncodeWalOp(Insert(key, location)), 1, TornLen))
    /\ Gone(MapInsert(map, key, location))
    /\ UNCHANGED mapFile
    /\ Called("add", <<key, location>>, "crash")

\* the table goes out of scope: both files are closed
Drop ==
    /\ isOpen
    /\ Gone(map)
    /\ UNCHANGED <<mapFile, walFile>>
    /\ Called("drop", <<>>, "Ok")

Calls ==
    \/ \E reset \in BOOLEAN : Open(reset)
    \/ \E key \in Keys, location \in Locs : Add(key, location, "ok")
    \/ \E key \in Keys : RemoveKey(key, "ok")
    \/ \E order \in IterOrders(map) : Flush(order)
    \/ Drop

Failures ==
    \/ \E reset \in BOOLEAN, point \in OpenPoints : OpenErr(reset, point)
    \/ \E reset \in BOOLEAN : OpenPanic(reset)
    \/ \E key \in Keys, location \in Locs, io \in IoOutcomes \ {"ok"} : Add(key, location, io)
    \/ \E key \in Keys, io \in IoOutcomes \ {"ok"} : RemoveKey(key, io)

Crashes ==
    \/ \E order \in IterOrders(map), i \in 0..Cardinality(DOMAIN map) :
          \E k \in 2..6 : /\ (FlushStages[k] = "write") => i < Len(order)
                          /\ (FlushStages[k] # "write") => i = 0
                          /\ FlushCrash(FlushStages[k], order, i)
    \/ \E key \in Keys, location \in Locs : AddCrash(key, location)

\* the restart after a crash: the directory is opened as the crash left it
Recover ==
    /\ last.result = "crash"
    /\ Open(FALSE)

\* Normal operation: every call returns Ok
Next == Calls

Spec == Init /\ [][Next]_vars

\* Operation up to the first I/O failure or crash, and the restart after a crash
NextFault ==
    \/ ~faulted /\ Calls
    \/ ~faulted /\ Failures
    \/ ~faulted /\ Crashes
    \/ Recover

SpecFault == Init /\ [][NextFault]_vars

----------------------------------------------------------------------------
(* Properties *)

\* Replay as the specification describes it: insert upserts, remove deletes
\* the entry if present, in the order of the log
ApplyOp(m, op) ==
    IF op.type = "Insert" THEN MapInsert(m, op.key, op.location)
    ELSE MapRemove(m, op.key)

RECURSIVE Replay(_, _)
Replay(m, ops) == IF ops = <<>> THEN m ELSE Replay(ApplyOp(m, Head(ops)), Tail(ops))

\* the keys a comparison of two maps ranges over
KeysOf(m1, m2) == Keys \cup DOMAIN m1 \cup DOMAIN m2
SameGets(m1, m2) == \A k \in KeysOf(m1, m2) : Get(m1, k) = Get(m2, k)
Size(m) == Cardinality(DOMAIN m)

OpenedOk == last.call = "new_reset" /\ last.result = "Ok" /\ isOpen
FlushedOk == last.call = "flush" /\ last.result = "Ok" /\ isOpen
AddedOk(k, l) == last.call = "add" /\ last.args = <<k, l>> /\ last.result = "Ok"
RemovedOk(k) == last.call = "remove" /\ last.args = <<k>> /\ last.result = "Ok"

\* C1: after a successful open, map is the snapshot file's records with the
\* log file's operations applied on top, in file order.
C1_OpenReplaysLog ==
    OpenedOk =>
        map = Replay(get_map_from_file(mapFile), get_wal_from_file(walFile))

\* C2: a successful flush followed by a fresh open of the directory gives a
\* table with the same get for every key and a map of the same size.
C2_FlushOpenRoundTrip ==
    [][(FlushedOk /\ OpenedOk') => (SameGets(map', map) /\ Size(map') = Size(map))]_vars

C2_Witness ==
    /\ OpenedOk
    /\ last.args = <<FALSE>>
    /\ last.after = <<"Ok">>
    /\ map = [k \in {1, 6} |-> IF k = 1 THEN B ELSE A]

\* C3: right after a successful flush the snapshot file decodes to exactly
\* the entries of map, one record each, the log file is empty, the in-memory
\* wal is empty, and map is what it was before the flush.
C3_FlushPostcondition ==
    [][FlushedOk' =>
        /\ get_map_from_file(mapFile') = map'
        /\ Len(mapFile') = MAP_BLOCK_SIZE * Size(map')
        /\ Len(walFile') = 0
        /\ wal' = <<>>
        /\ map' = map]_vars

C3_Witness ==
    /\ FlushedOk
    /\ Size(map) = 2
    /\ Len(mapFile) = 2 * MAP_BLOCK_SIZE

\* C4: on a table opened on a log of whole records, after successful calls
\* only, the log file decoded in 25-byte records is the in-memory wal.
C4_LogFileMirrorsWal ==
    (isOpen /\ ~faulted /\ walPos % WAL_BLOCK_SIZE = 0) =>
        get_wal_from_file(walFile) = wal

\* C5: after a successful add(k, L), get(k) is L and the get of every other
\* key is what it was.
C5_AddSetsKey ==
    [][\A k \in Keys, l \in Locs :
        AddedOk(k, l)' =>
            /\ Get(map', k) = {l}
            /\ \A j \in KeysOf(map, map') \ {k} : Get(map', j) = Get(map, j)]_vars

C5_Witness ==
    /\ AddedOk(1, B)
    /\ wal = <<Insert(1, A), Insert(1, B)>>
    /\ Get(map, 1) = {B}

\* C6: after a successful remove(k) of a key the map holds, get(k) is None,
\* the map has one entry less and the get of every other key is what it was.
C6_RemovePresent ==
    [][\A k \in Keys :
        (RemovedOk(k)' /\ k \in DOMAIN map) =>
            /\ Get(map', k) = {}
            /\ Size(map') = Size(map) - 1
            /\ \A j \in KeysOf(map, map') \ {k} : Get(map', j) = Get(map, j)]_vars

C6_Witness ==
    /\ RemovedOk(1)
    /\ wal = <<Insert(1, A), Remove(1)>>
    /\ Get(map, 1) = {}
    /\ Get(map, 6) = {B}

\* C7: remove(k) of a key the map does not hold returns Ok and leaves map
\* as it was.
C7_RemoveAbsent ==
    [][\A k \in Keys :
        (last'.call = "remove" /\ last'.args = <<k>> /\ k \notin DOMAIN map) =>
            /\ last'.result = "Ok"
            /\ map' = map]_vars

C7_Witness ==
    /\ RemovedOk(6)
    /\ wal = <<Remove(6)>>
    /\ mapFile = <<>>
    /\ map = EmptyMap

\* C8: a second successful flush right after a successful flush leaves every
\* get as it was and the snapshot file decoding to the same map, and the log
\* file is empty after each of the two.
C8_FlushIdempotent ==
    [][(FlushedOk /\ FlushedOk') =>
        /\ SameGets(map', map)
        /\ get_map_from_file(mapFile') = get_map_from_file(mapFile)
        /\ Len(walFile) = 0
        /\ Len(walFile') = 0]_vars

C8_Witness ==
    /\ FlushedOk
    /\ last.after = <<"Ok">>
    /\ Size(map) = 2

\* C9: an open of a log of n whole records and a torn tail succeeds and
\* applies exactly the n leading records, in order.
C9_TornLogApplied ==
    (OpenedOk /\ Len(walFile) % WAL_BLOCK_SIZE # 0) =>
        LET whole == SubSeq(walFile, 1, (Len(walFile) \div WAL_BLOCK_SIZE) * WAL_BLOCK_SIZE)
        IN  /\ wal = get_wal_from_file(whole)
            /\ map = Replay(get_map_from_file(mapFile), get_wal_from_file(whole))

\* every map over Keys and every log of at most MaxRecords operations
ClaimMaps == UNION {[D -> Locs] : D \in SUBSET Keys}
ClaimLogs == UNION {[1..n -> Ops] : n \in 0..MaxRecords}
CrashedBeforeTruncate ==
    last.call = "flush" /\ last.result = "crash" /\ last.args = <<"wal_set_len">>

ReplayIdempotent ==
    \A S \in ClaimMaps, W \in ClaimLogs : Replay(Replay(S, W), W) = Replay(S, W)

\* C10: the open after a crash inside flush, between the sync of the rewritten
\* snapshot and the truncation of the log, gives the map the table held at
\* the flush; and replaying a log twice gives what replaying it once gives.
C10_CrashBeforeTruncate ==
    [][(CrashedBeforeTruncate /\ OpenedOk') => (map' = map /\ ReplayIdempotent)]_vars

C10_Witness ==
    /\ OpenedOk
    /\ last.after = <<"crash", "wal_set_len">>
    /\ wal # <<>>
    /\ Size(map) = 2

\* ---- C11 ----
\* A step of add or remove that left the log file as it was did not write it.
LogNotWritten == walFile' = walFile

AddStep(k, l) == last'.call = "add" /\ last'.args = <<k, l>>

RemoveStep(k) == last'.call = "remove" /\ last'.args = <<k>>

\* the table after a failed add or remove
FailedAppend == last.call \in {"add", "remove"} /\ last.result = "Err"

\* every later call finds the table as any other open table: get answers, and
\* add, remove, flush and drop are accepted as far as the bounds allow
LaterCallsAccepted ==
    /\ isOpen
    /\ ENABLED (\E order \in IterOrders(map) : Flush(order))
    /\ ENABLED Drop
    /\ CanAppend => /\ ENABLED (\E k \in Keys, l \in Locs : Add(k, l, "ok"))
                    /\ ENABLED (\E k \in Keys : RemoveKey(k, "ok"))

C11_FailedAddKeepsMutation ==
    \A k \in Keys, l \in Locs :
        AddStep(k, l) =>
            /\ LogNotWritten => last'.result = "Err"
            /\ last'.result = "Err" =>
                  /\ Get(map', k) = {l}
                  /\ \A j \in KeysOf(map, map') \ {k} : Get(map', j) = Get(map, j)
                  /\ wal' = Append(wal, Insert(k, l))
                  /\ isOpen'

C11_FailedRemoveKeepsMutation ==
    \A k \in Keys :
        RemoveStep(k) =>
            /\ LogNotWritten => last'.result = "Err"
            /\ last'.result = "Err" =>
                  /\ Get(map', k) = {}
                  /\ \A j \in KeysOf(map, map') \ {k} : Get(map', j) = Get(map, j)
                  /\ wal' = Append(wal, Remove(k))
                  /\ isOpen'

\* C11: when the log write or sync inside add or remove fails, the call
\* returns an error and the in-memory map keeps the mutation (no rollback);
\* the table enters no error state and later calls are still accepted.
C11_FailedAppend ==
    /\ [][C11_FailedAddKeepsMutation /\ C11_FailedRemoveKeepsMutation]_vars
    /\ [](FailedAppend => LaterCallsAccepted)

\* add(1, B) failed at the write: key 1 reads B, the log file holds nothing
C11_Witness ==
    /\ FailedAppend /\ last.call = "add" /\ last.args = <<1, B>>
    /\ isOpen /\ Get(map, 1) = {B} /\ wal = <<Insert(1, B)>> /\ walFile = <<>>

\* ---- C12 ----
\* the key field of the i-th 24-byte record of a snapshot file
RecordKey(f, i) == from_le_bytes(SubSeq(f, (i - 1) * MAP_BLOCK_SIZE + 1,
                                           (i - 1) * MAP_BLOCK_SIZE + U64_BYTES))

RecordCount(f) == Len(f) \div MAP_BLOCK_SIZE

NoDuplicateKeys(f) ==
    \A i, j \in 1..RecordCount(f) : i # j => RecordKey(f, i) # RecordKey(f, j)

OneRecordPerKey(f, m) ==
    /\ Len(f) = MAP_BLOCK_SIZE * Size(m)
    /\ NoDuplicateKeys(f)
    /\ {RecordKey(f, i) : i \in 1..RecordCount(f)} = DOMAIN m

\* a step that is neither a flush nor an open that resets the directory
UntilNextFlush == last'.call # "flush" /\ ~(last'.call = "new_reset" /\ last'.args = <<TRUE>>)

\* C12: in every state reachable after a successful flush and before the
\* next flush completes, the snapshot file holds no two records with the same
\* key and exactly one 24-byte record per key of the map at that flush, so its
\* length is 24 times the size of that map: a successful flush leaves such a
\* file, and no step before the next flush changes a byte of it.
C12_SnapshotOneRecordPerKey ==
    [][/\ FlushedOk' => OneRecordPerKey(mapFile', map')
       /\ UntilNextFlush => mapFile' = mapFile]_vars

\* two keys flushed, then one removed: the snapshot still has both records
C12_Witness ==
    /\ RemovedOk(1) /\ last.after = <<"Ok">> /\ Size(map) = 1
    /\ RecordCount(mapFile) = 2 /\ NoDuplicateKeys(mapFile)

\* ---- C13 ----
ResetOpenedOk == OpenedOk /\ last.args = <<TRUE>>

EmptyTable ==
    /\ map = EmptyMap /\ \A k \in Keys : Get(map, k) = {}
    /\ wal = <<>>
    /\ mapFile = <<>> /\ walFile = <<>>

\* C13: new_reset(dir, true) yields a table with an empty map and an empty
\* in-memory wal, and empty snapshot and log files on disk, whatever the two
\* files held before the call.
C13_ResetOpensEmpty ==
    [][ResetOpenedOk' => EmptyTable']_vars

\* a table just opened with the reset flag
C13_Witness == ResetOpenedOk /\ EmptyTable /\ mapPos = 0 /\ walPos = 0

\* ---- C14 ----
LogShrinks == Len(walFile') < Len(walFile)

\* C14: the log file never gets shorter by add, remove or get (get changes
\* nothing at all); of the operations of an open table, flush is the only
\* one at which the log file becomes shorter.
C14_OnlyFlushShrinksLog ==
    [][/\ last'.call \in {"add", "remove"} => Len(walFile') >= Len(walFile)
       /\ (isOpen /\ LogShrinks) => last'.call = "flush"]_vars

\* add, flush, add: the log file was 25 bytes, then 0, and is now 50
C14_Witness ==
    /\ last.call = "add" /\ last.result = "Ok" /\ last.after = <<"Ok">>
    /\ Len(walFile) = 2 * WAL_BLOCK_SIZE /\ wal = <<Insert(last.args[1], last.args[2])>>

\* ---- C15 ----
\* a table opened on a log that ends in a partial record and not flushed
\* since: the cursor is at the end of the file, t bytes past a record
\* boundary, and wal holds the complete leading records and every operation
\* appended since
TornOpened ==
    /\ isOpen
    /\ walPos % WAL_BLOCK_SIZE # 0
    /\ Len(walFile) = walPos
    /\ Len(wal) = walPos \div WAL_BLOCK_SIZE

AppendedOk == last.call \in {"add", "remove"} /\ last.result = "Ok"

\* C15: a torn log write loses only the torn record: after opening a log
\* that ends in a partial record, every operation then appended by add or
\* remove through that table is decoded intact and in order, after the
\* complete leading records, by the next open of the directory.
C15_AppendsAfterTornTail ==
    [][(TornOpened /\ AppendedOk /\ OpenedOk' /\ last'.args = <<FALSE>>)
          => wal' = wal]_vars

\* ---- C16 ----
OpenFailed == last.call = "new_reset" /\ last.result # "Ok"

\* C16: every failure of a fallible step of open, the creation of the
\* directory included, is reported to the caller as Err and not by aborting
\* the process, and no table is returned.
C16_OpenFailureIsErr == OpenFailed => last.result = "Err"

\* ---- C17 ----
\* the process was killed somewhere inside flush; map is still what the table
\* held when flush was called
CrashedInFlush == last.call = "flush" /\ last.result = "crash"

\* C17: a crash at any point inside flush, between the truncation of the
\* snapshot file and the write of its last record included, leaves files from
\* which the next open reconstructs the map the table held when flush was
\* called.
C17_CrashInFlushRecovers ==
    [][(CrashedInFlush /\ OpenedOk') => (SameGets(map', map) /\ Size(map') = Size(map))]_vars

\* ---- C18 ----
SnapshotWritten == mapFile' # mapFile

\* C18: add and remove never modify the snapshot file, so it is the same
\* before and after any run of add and remove calls with no flush between;
\* flush is the only operation of an open table that writes it.
C18_OnlyFlushWritesSnapshot ==
    [][/\ last'.call \in {"add", "remove"} => (~SnapshotWritten /\ mapPos' = mapPos)
       /\ (isOpen /\ SnapshotWritten) => last'.call = "flush"]_vars

\* add(1, B) then remove(6) on a table opened on a two-record snapshot: the
\* map has changed twice, the snapshot file still decodes to the two records
C18_Witness ==
    /\ RemovedOk(6) /\ wal = <<Insert(1, B), Remove(6)>>
    /\ Get(map, 1) = {B} /\ Get(map, 6) = {}
    /\ Len(mapFile) = 2 * MAP_BLOCK_SIZE
    /\ Get(get_map_from_file(mapFile), 1) = {A} /\ Get(get_map_from_file(mapFile), 6) = {B}

\* ---- C19 ----
\* the i-th complete 25-byte record of a log file
LogRecord(f, i) == SubSeq(f, (i - 1) * WAL_BLOCK_SIZE + 1, i * WAL_BLOCK_SIZE)

LogRecords(f) == [i \in 1..(Len(f) \div WAL_BLOCK_SIZE) |-> LogRecord(f, i)]

KnownOpcode(rec) == rec[1] \in {0, 1}

HasUnknownOpcode(f) == \E i \in DOMAIN LogRecords(f) : ~KnownOpcode(LogRecords(f)[i])

\* op is what the record says: an insert is its 25 bytes, a remove its
\* opcode and key (the 16 bytes after them are not read)
OpIsRecord(op, rec) ==
    IF rec[1] = 0
    THEN op.type = "Insert" /\ EncodeWalOp(op) = rec
    ELSE op.type = "Remove" /\ SubSeq(EncodeWalOp(op), 1, 1 + U64_BYTES) = SubSeq(rec, 1, 1 + U64_BYTES)

\* C19: a complete 25-byte log record whose opcode is neither 0 nor 1 is
\* skipped: the open succeeds, no operation is produced for the record, and
\* the records before and after it are decoded in their file order.
C19_UnknownOpcodeSkipped ==
    (OpenedOk /\ HasUnknownOpcode(walFile)) =>
        LET known == SelectSeq(LogRecords(walFile), KnownOpcode)
        IN  /\ Len(wal) = Len(known)
            /\ \A i \in 1..Len(known) : OpIsRecord(wal[i], known[i])

\* the log Remove(6), a record with opcode 2, Insert(6, A), just opened
C19_Witness ==
    /\ OpenedOk /\ Len(walFile) = 3 * WAL_BLOCK_SIZE /\ LogRecord(walFile, 2) = BadRecord
    /\ wal = <<Remove(6), Insert(6, A)>>

====
